---- MODULE Spec2Model ----
(***************************************************************************)
(* secure_vault: the streaming, chunked authenticated-encryption container *)
(* (src/crypto/mod.rs, chacha.rs, kdf.rs, types.rs).                       *)
(*                                                                         *)
(* Files are byte sequences (bytes are 0..255).  An encrypt call reads the *)
(* path "plain" and writes the path "vault"; a decrypt call reads "vault"  *)
(* and writes "out".  Both calls are async functions with a chunk loop:    *)
(* one action models the call up to the loop, one action models one loop   *)
(* iteration, one action models the loop exit.                             *)
(*                                                                         *)
(* The AEAD (ring CHACHA20_POLY1305) and the password hash (argon2) are    *)
(* external libraries.  They are modelled as ideal primitives over bytes:  *)
(* Argon2id is collision free on the modelled inputs, and aead_open        *)
(* accepts exactly what aead_seal produces under the same key and nonce.   *)
(***************************************************************************)
EXTENDS Integers, Sequences, FiniteSets, TLC

----------------------------------------------------------------------------
(* Bounds of the model *)

\* chunk size of the streaming loop; 1 MiB in the program, scaled down
CHUNK_SIZE == 2
\* longest plaintext file (2.5 chunks at the scaled chunk size)
MaxFileLen == 5
\* largest work factor an engine is constructed with (0 is invalid)
MaxIterations == 3
\* longest of the sample files (one file of each length up to it)
MaxSampleLen == 3

----------------------------------------------------------------------------
(* Program constants *)

VERSION == 1
SALT_SIZE == 32
NONCE_LEN == 12
TAG_LEN == 16
KEY_LEN == 32
DECRYPT_ITERATIONS == 3

----------------------------------------------------------------------------
(* Bytes and byte strings *)

Byte == 0..255

Fill(n, b) == [i \in 1..n |-> b]

Min(a, b) == IF a < b THEN a ELSE b

RECURSIVE XorBits(_, _, _)
XorBits(a, b, n) ==
    IF n = 0 THEN 0
    ELSE ((a + b) % 2) + 2 * XorBits(a \div 2, b \div 2, n - 1)

Xor(a, b) == XorBits(a, b, 8)

RECURSIVE SumBytes(_)
SumBytes(s) == IF s = <<>> THEN 0 ELSE Head(s) + SumBytes(Tail(s))

write_u32_le(n) ==
    << n % 256, (n \div 256) % 256, (n \div 65536) % 256, (n \div 16777216) % 256 >>

\* tokio AsyncWriteExt::write_u32 writes the value in big-endian order
write_u32(n) ==
    << (n \div 16777216) % 256, (n \div 65536) % 256, (n \div 256) % 256, n % 256 >>

read_u32_le(b) == b[1] + b[2] * 256 + b[3] * 65536 + (b[4] % 128) * 16777216

\* tokio AsyncReadExt::read_u32 reads a big-endian value
read_u32(b) == b[1] * 16777216 + b[2] * 65536 + b[3] * 256 + b[4]

RECURSIVE LittleEndian(_, _)
LittleEndian(n, width) ==
    IF width = 0 THEN <<>> ELSE <<n % 256>> \o LittleEndian(n \div 256, width - 1)

\* u64::to_le_bytes
to_le_bytes(n) == LittleEndian(n, 8)

----------------------------------------------------------------------------
(* Algorithm registry (types.rs) *)

Algorithms == {"Aes256Gcm", "ChaCha20Poly1305"}
None == "None"

to_byte(a) == IF a = "Aes256Gcm" THEN 1 ELSE 2

from_byte_default(b) ==
    IF b = 1 THEN "Aes256Gcm" ELSE "ChaCha20Poly1305"

from_byte(b) ==
    IF b = 1 THEN "Aes256Gcm"
    ELSE IF b = 2 THEN "ChaCha20Poly1305"
    ELSE None

\* Algorithm::nonce_size
nonce_size(a) == IF a = "Aes256Gcm" THEN 12 ELSE 24

----------------------------------------------------------------------------
(* Key derivation (kdf.rs) *)

\* Argon2id with output_len 32, as an ideal hash of (password, salt, t_cost)
Argon2id(password, salt, t_cost) ==
    LET k1 == SumBytes(password) % 256
        k2 == SumBytes(salt) % 256
        k3 == t_cost % 256
    IN  [i \in 1..KEY_LEN |->
            IF i = 1 THEN k1 ELSE IF i = 2 THEN k2 ELSE IF i = 3 THEN k3
            ELSE (k1 + k2 + k3 + i) % 256]

derive_key_without_password(password, salt, iterations) ==
    IF iterations < 1
    THEN [ok |-> FALSE, key |-> <<>>]
    ELSE [ok |-> TRUE, key |-> Argon2id(<<>>, salt, iterations)]

derive_key_unchecked(password, salt, iterations) ==
    [ok |-> TRUE, key |-> Argon2id(password, salt, iterations)]

\* ParamsBuilder::build rejects t_cost below 1; every other step succeeds
derive_key(password, salt, iterations) ==
    IF iterations < 1
    THEN [ok |-> FALSE, key |-> <<>>]
    ELSE [ok |-> TRUE, key |-> Argon2id(password, salt, iterations)]

----------------------------------------------------------------------------
(* Nonce sequence and AEAD (chacha.rs, ring) *)

NonceOf_fixed(counter) == Fill(4, 0) \o to_le_bytes(0)

\* CounterNonceSequence::advance: the nonce built from the current counter
NonceOf(counter) == Fill(4, 0) \o to_le_bytes(counter)

advance_stuck(counter) == counter

\* CounterNonceSequence::advance: the counter after the call
advance(counter) == counter + 1

KeyStream(key, nonce, i) ==
    (7 * key[1] + 3 * key[2] + 5 * key[3] + 11 * nonce[5] + 13 * i + 1) % 256

Crypt(key, nonce, data) ==
    [i \in 1..Len(data) |-> Xor(data[i], KeyStream(key, nonce, i))]

RECURSIVE FoldLane(_, _, _)
FoldLane(ct, lane, i) ==
    IF i > Len(ct) THEN 0
    ELSE IF i % 10 = lane THEN Xor(ct[i], FoldLane(ct, lane, i + 1))
    ELSE FoldLane(ct, lane, i + 1)

Tag(key, nonce, ct) ==
    [j \in 1..TAG_LEN |->
        IF j = 1 THEN key[1] ELSE IF j = 2 THEN key[2] ELSE IF j = 3 THEN key[3]
        ELSE IF j = 4 THEN nonce[5] ELSE IF j = 5 THEN nonce[6]
        ELSE IF j = 6 THEN Len(ct) % 256
        ELSE FoldLane(ct, j - 7, 1)]

\* SealingKey::seal_in_place_append_tag with empty associated data
aead_seal(key, nonce, plaintext) ==
    LET ct == Crypt(key, nonce, plaintext) IN ct \o Tag(key, nonce, ct)

aead_open_unverified(key, nonce, sealed) ==
    IF Len(sealed) < TAG_LEN THEN [ok |-> FALSE, plaintext |-> <<>>]
    ELSE [ok |-> TRUE,
          plaintext |-> Crypt(key, nonce, SubSeq(sealed, 1, Len(sealed) - TAG_LEN))]

\* OpeningKey::open_in_place with empty associated data
aead_open(key, nonce, sealed) ==
    IF Len(sealed) < TAG_LEN THEN [ok |-> FALSE, plaintext |-> <<>>]
    ELSE LET n == Len(sealed) - TAG_LEN
             ct == SubSeq(sealed, 1, n)
             tag == SubSeq(sealed, n + 1, Len(sealed))
         IN  IF tag = Tag(key, nonce, ct)
             THEN [ok |-> TRUE, plaintext |-> Crypt(key, nonce, ct)]
             ELSE [ok |-> FALSE, plaintext |-> <<>>]

----------------------------------------------------------------------------
(* Inputs of the model *)

PlainBytes == {65, 66}

Passwords == { <<112, 49>>, <<112, 50>> }

\* outcomes of rand::thread_rng().fill_bytes for the salt and the base nonce
Salts == { Fill(SALT_SIZE, 0), Fill(SALT_SIZE, 1) }
BaseNonces == { Fill(NONCE_LEN, 9) }

File(data) == [exists |-> TRUE, data |-> data]
NoFile == [exists |-> FALSE, data |-> <<>>]

PlainFiles == UNION { { File(d) : d \in [1..n -> PlainBytes] } : n \in 0..MaxFileLen }

\* files found at the container path that no encrypt call of the model wrote:
\* an empty file, one-byte files, and version/algorithm bytes of every kind
\* followed by nothing or by the rest of a header
ForeignVaults ==
    { File(<<>>) } \cup { File(<<v>>) : v \in 0..2 }
    \cup { File(<<v, a>> \o t) : v \in 0..2, a \in 0..3,
                                 t \in { <<>>, Fill(SALT_SIZE + NONCE_LEN, 0) } }

\* a file already present at an output path before the call
OldOutput == File(<<7, 7, 7>>)

\* the header encrypt writes: version, algorithm id, salt, base nonce
Header(salt, nonce) == <<VERSION, to_byte("ChaCha20Poly1305")>> \o salt \o nonce

HEADER_LEN == 2 + SALT_SIZE + NONCE_LEN

----------------------------------------------------------------------------
(* State *)

VARIABLES
    fs,          \* path -> file: "plain", "vault", "out"
    fs0,         \* the files before the first call
    engine,      \* CryptoEngine { algorithm, iterations }
    pc,          \* position of the running call, "idle" between calls
    encPassword, \* password argument of the encrypt call
    decPassword, \* password argument of the decrypt call
    key,         \* derived key of the running call (<<>>: none)
    counter,     \* CounterNonceSequence.counter of the running call
    pos,         \* bytes consumed from the input handle of the running call
    encResult,   \* result of the encrypt call ("none": not called, "running")
    decResult,   \* result of the decrypt call
    kdfCalls,    \* number of derive_key calls made by each call
    sealNonces,  \* nonces the encrypt call sealed with, in order
    openNonces,  \* nonces the decrypt call opened with, in order
    records,     \* plaintext of each chunk record the encrypt call wrote
    alloc,       \* largest chunk buffer allocated so far
    lengthReads, \* number of length fields the decrypt call read
    tampered,    \* the container was modified after encrypt wrote it
    edit,        \* the modification made: its kind and where
    regCall      \* last call made on the algorithm registry

vars == << fs, fs0, engine, pc, encPassword, decPassword, key, counter, pos,
           encResult, decResult, kdfCalls, sealNonces, openNonces, records,
           alloc, lengthReads, tampered, edit, regCall >>

\* the variables of the encrypt and decrypt calls
codecVars == << fs, fs0, engine, pc, encPassword, decPassword, key, counter, pos,
                encResult, decResult, kdfCalls, sealNonces, openNonces, records,
                alloc, lengthReads, tampered, edit >>

NoCall == [op |-> "none", arg |-> 0, ret |-> 0]

NoEdit == [kind |-> "none", i |-> 0, j |-> 0]

exists_always(file) == TRUE

\* Path::exists
exists(file) == file.exists

Max(a, b) == IF a > b THEN a ELSE b

InitWith(plains, vaults, outs, engines) ==
    /\ \E p \in plains, v \in vaults, o \in outs :
           fs = [plain |-> p, vault |-> v, out |-> o]
    /\ fs0 = fs
    /\ engine \in engines
    /\ pc = "idle"
    /\ encPassword = <<>>
    /\ decPassword = <<>>
    /\ key = <<>>
    /\ counter = 0
    /\ pos = 0
    /\ encResult = "none"
    /\ decResult = "none"
    /\ kdfCalls = [encrypt |-> 0, decrypt |-> 0]
    /\ sealNonces = <<>>
    /\ openNonces = <<>>
    /\ records = <<>>
    /\ alloc = 0
    /\ lengthReads = 0
    /\ tampered = FALSE
    /\ edit = NoEdit
    /\ regCall = NoCall

\* CryptoEngine::new(algorithm, iterations)
Engines == [algorithm : Algorithms, iterations : 0..MaxIterations]

\* one plaintext file of each length
SampleFiles ==
    { File([i \in 1..n |-> 65 + (i % 2)]) : n \in 0..MaxSampleLen }

\* any plaintext file and free output paths; or a sample file and output paths
\* already taken; or no plaintext file and nothing or a file from elsewhere at
\* the container path
Init ==
    \/ InitWith(PlainFiles, {NoFile}, {NoFile}, Engines)
    \/ InitWith(SampleFiles, {OldOutput}, {OldOutput}, Engines)
    \/ InitWith({NoFile}, ForeignVaults \cup {NoFile}, {NoFile, OldOutput}, Engines)

----------------------------------------------------------------------------
(* CryptoEngine::encrypt_file and chacha::encrypt_file *)

EncryptReturn(result) ==
    /\ encResult' = result
    /\ pc' = "idle"
    /\ key' = <<>>

\* CryptoEngine::encrypt_file, and chacha::encrypt_file up to the chunk loop
EncryptStart(password) ==
    /\ pc = "idle" /\ encResult = "none" /\ decResult = "none"
    /\ encPassword' = password
    /\ UNCHANGED << fs0, engine, decPassword, decResult, openNonces, records,
                    sealNonces, lengthReads, tampered, edit, regCall >>
    /\ IF ~exists(fs.plain)
       THEN /\ EncryptReturn("InputNotFound")
            /\ UNCHANGED << fs, counter, pos, kdfCalls, alloc >>
       ELSE IF engine.algorithm = "Aes256Gcm"
       THEN \* aes::encrypt_file: src/crypto/aes.rs is not part of the sources
            /\ pc' = "aes_encrypt"
            /\ encResult' = "running"
            /\ UNCHANGED << fs, key, counter, pos, kdfCalls, alloc >>
       ELSE \E salt \in Salts, nonce \in BaseNonces :
            LET dk == derive_key(password, salt, engine.iterations) IN
            /\ kdfCalls' = [kdfCalls EXCEPT !.encrypt = @ + 1]
            /\ IF ~dk.ok
               THEN /\ EncryptReturn("KdfError")
                    /\ UNCHANGED << fs, counter, pos, alloc >>
               ELSE IF ~fs.plain.exists
               THEN \* File::open(input) fails
                    /\ EncryptReturn("IoError")
                    /\ UNCHANGED << fs, counter, pos, alloc >>
               ELSE /\ fs' = [fs EXCEPT !.vault = File(Header(salt, nonce))]
                    /\ key' = dk.key
                    /\ counter' = 0
                    /\ pos' = 0
                    /\ alloc' = Max(alloc, CHUNK_SIZE)
                    /\ encResult' = "running"
                    /\ pc' = "enc_loop"

\* one iteration of the loop: input_file.read returned bytes_read > 0 bytes
EncryptChunk(bytes_read) ==
    /\ pc = "enc_loop"
    /\ bytes_read \in 1..Min(CHUNK_SIZE, Len(fs.plain.data) - pos)
    /\ LET chunk == SubSeq(fs.plain.data, pos + 1, pos + bytes_read)
           nonce == NonceOf(counter)
           in_out == aead_seal(key, nonce, chunk)
       IN  /\ counter' = advance(counter)
           /\ sealNonces' = Append(sealNonces, nonce)
           /\ records' = Append(records, chunk)
           /\ alloc' = Max(alloc, Len(in_out))
           /\ fs' = [fs EXCEPT !.vault.data = @ \o write_u32(Len(in_out)) \o in_out]
           /\ pos' = pos + bytes_read
    /\ UNCHANGED << fs0, engine, pc, encPassword, decPassword, key, encResult,
                    decResult, kdfCalls, openNonces, lengthReads, tampered, edit, regCall >>

\* input_file.read returned 0 at end of file: break, flush, Ok
EncryptFinish ==
    /\ pc = "enc_loop"
    /\ pos = Len(fs.plain.data)
    /\ EncryptReturn("Ok")
    /\ UNCHANGED << fs, fs0, engine, encPassword, decPassword, counter, pos,
                    decResult, kdfCalls, sealNonces, openNonces, records, alloc,
                    lengthReads, tampered, edit, regCall >>

----------------------------------------------------------------------------
(* CryptoEngine::decrypt_file and chacha::decrypt_file *)

DecryptReturn(result) ==
    /\ decResult' = result
    /\ pc' = "idle"
    /\ key' = <<>>

\* chacha::decrypt_file up to the chunk loop
ChachaDecryptStart(password) ==
    LET data == fs.vault.data IN
    IF data[1] # VERSION
    THEN /\ DecryptReturn("UnsupportedVersion")
         /\ UNCHANGED << fs, counter, pos, kdfCalls >>
    ELSE IF data[2] # to_byte("ChaCha20Poly1305")
    THEN /\ DecryptReturn("InvalidFormat")
         /\ UNCHANGED << fs, counter, pos, kdfCalls >>
    ELSE IF Len(data) < HEADER_LEN
    THEN \* read_exact of the salt or of the nonce hits end of file
         /\ DecryptReturn("IoError")
         /\ UNCHANGED << fs, counter, pos, kdfCalls >>
    ELSE LET salt == SubSeq(data, 3, 2 + SALT_SIZE)
             dk == derive_key(password, salt, DECRYPT_ITERATIONS)
         IN  /\ kdfCalls' = [kdfCalls EXCEPT !.decrypt = @ + 1]
             /\ IF ~dk.ok
                THEN /\ DecryptReturn("KdfError")
                     /\ UNCHANGED << fs, counter, pos >>
                ELSE /\ fs' = [fs EXCEPT !.out = File(<<>>)]
                     /\ key' = dk.key
                     /\ counter' = 0
                     /\ pos' = HEADER_LEN
                     /\ decResult' = "running"
                     /\ pc' = "dec_loop"

\* CryptoEngine::decrypt_file, then the codec it dispatches to
DecryptStart(password) ==
    /\ pc = "idle" /\ decResult = "none"
    /\ decPassword' = password
    /\ UNCHANGED << fs0, engine, encPassword, encResult, sealNonces, openNonces,
                    records, alloc, lengthReads, tampered, edit, regCall >>
    /\ IF ~exists(fs.vault)
       THEN /\ DecryptReturn("InputNotFound")
            /\ UNCHANGED << fs, counter, pos, kdfCalls >>
       ELSE IF ~fs.vault.exists \/ Len(fs.vault.data) < 2
       THEN \* File::open fails, or read_exact of the 2 header bytes does
            /\ DecryptReturn("IoError")
            /\ UNCHANGED << fs, counter, pos, kdfCalls >>
       ELSE IF fs.vault.data[1] # VERSION
       THEN /\ DecryptReturn("UnsupportedVersion")
            /\ UNCHANGED << fs, counter, pos, kdfCalls >>
       ELSE IF from_byte(fs.vault.data[2]) = None
       THEN /\ DecryptReturn("UnsupportedAlgorithm")
            /\ UNCHANGED << fs, counter, pos, kdfCalls >>
       ELSE IF from_byte(fs.vault.data[2]) = "Aes256Gcm"
       THEN \* aes::decrypt_file: src/crypto/aes.rs is not part of the sources
            /\ pc' = "aes_decrypt"
            /\ decResult' = "running"
            /\ UNCHANGED << fs, key, counter, pos, kdfCalls >>
       ELSE ChachaDecryptStart(password)

on_open_skip(opened) == [abort |-> FALSE, write |-> opened.plaintext]

\* .map_err(|_| VaultError::AuthenticationFailed)? on the result of the open:
\* a failed open ends the call, a successful one hands over the plaintext
on_open(opened) == [abort |-> ~opened.ok, write |-> opened.plaintext]

\* one iteration of the loop: read_u32 returned a length
DecryptChunk ==
    /\ pc = "dec_loop"
    /\ Len(fs.vault.data) - pos >= 4
    /\ LET data == fs.vault.data
           chunk_size == read_u32(SubSeq(data, pos + 1, pos + 4))
       IN  /\ lengthReads' = lengthReads + 1
           /\ alloc' = Max(alloc, chunk_size)
           /\ IF Len(data) - (pos + 4) < chunk_size
              THEN \* read_exact of the chunk hits end of file
                   /\ DecryptReturn("IoError")
                   /\ UNCHANGED << fs, counter, pos, openNonces >>
              ELSE LET nonce == NonceOf(counter)
                       opened == aead_open(key, nonce,
                                     SubSeq(data, pos + 5, pos + 4 + chunk_size))
                   IN  /\ counter' = advance(counter)
                       /\ openNonces' = Append(openNonces, nonce)
                       /\ IF on_open(opened).abort
                          THEN /\ DecryptReturn("AuthenticationFailed")
                               /\ UNCHANGED << fs, pos >>
                          ELSE /\ fs' = [fs EXCEPT !.out.data = @ \o on_open(opened).write]
                               /\ pos' = pos + 4 + chunk_size
                               /\ UNCHANGED << pc, key, decResult >>
    /\ UNCHANGED << fs0, engine, encPassword, decPassword, encResult, kdfCalls,
                    sealNonces, records, tampered, edit, regCall >>

DecryptFinish_nonempty ==
    /\ pc = "dec_loop"
    /\ Len(fs.vault.data) - pos < 4
    /\ DecryptReturn(IF lengthReads = 0 THEN "InvalidFormat" ELSE "Ok")
    /\ UNCHANGED << fs, fs0, engine, encPassword, decPassword, counter, pos,
                    encResult, kdfCalls, sealNonces, openNonces, records, alloc,
                    lengthReads, tampered, edit, regCall >>

\* read_u32 hit end of file (UnexpectedEof): break, flush, Ok
DecryptFinish ==
    /\ pc = "dec_loop"
    /\ Len(fs.vault.data) - pos < 4
    /\ DecryptReturn("Ok")
    /\ UNCHANGED << fs, fs0, engine, encPassword, decPassword, counter, pos,
                    encResult, kdfCalls, sealNonces, openNonces, records, alloc,
                    lengthReads, tampered, edit, regCall >>

----------------------------------------------------------------------------

Next ==
    \/ \E password \in Passwords : EncryptStart(password)
    \/ \E n \in 1..CHUNK_SIZE : EncryptChunk(n)
    \/ EncryptFinish
    \/ \E password \in Passwords : DecryptStart(password)
    \/ DecryptChunk
    \/ DecryptFinish

Spec == Init /\ [][Next]_vars

----------------------------------------------------------------------------
(* Tampering with a container between the encrypt and the decrypt call *)

\* offset of the k-th chunk record of the container encrypt wrote
RECURSIVE RecordStart(_, _)
RecordStart(recs, k) ==
    IF k = 1 THEN HEADER_LEN
    ELSE RecordStart(recs, k - 1) + 4 + Len(recs[k - 1]) + TAG_LEN

\* positions of the ciphertext and tag bytes of the chunk records
PayloadPositions(recs) ==
    UNION { (RecordStart(recs, k) + 5)..(RecordStart(recs, k) + 4 + Len(recs[k]) + TAG_LEN)
            : k \in 1..Len(recs) }

RECURSIVE Pow2(_)
Pow2(n) == IF n = 0 THEN 1 ELSE 2 * Pow2(n - 1)

\* the container encrypt wrote can be modified once, before decrypt is called
CanEdit == pc = "idle" /\ encResult = "Ok" /\ decResult = "none" /\ ~tampered

\* one bit of one ciphertext or tag byte is flipped
FlipBit(i, bit) ==
    /\ CanEdit
    /\ i \in PayloadPositions(records)
    /\ fs' = [fs EXCEPT !.vault.data[i] = Xor(@, Pow2(bit))]
    /\ tampered' = TRUE
    /\ edit' = [kind |-> "flip", i |-> i, j |-> bit]
    /\ UNCHANGED << fs0, engine, pc, encPassword, decPassword, key, counter, pos,
                    encResult, decResult, kdfCalls, sealNonces, openNonces,
                    records, alloc, lengthReads, regCall >>

\* engines whose containers the decrypt call can open
TamperEngines ==
    { e \in Engines : e.algorithm = "ChaCha20Poly1305"
                      /\ e.iterations = DECRYPT_ITERATIONS }

InitTamper == InitWith(SampleFiles, {NoFile}, {NoFile}, TamperEngines)

NextTamper ==
    \/ Next
    \/ CanEdit /\ \E i \in 1..Len(fs.vault.data), bit \in 0..7 : FlipBit(i, bit)

SpecTamper == InitTamper /\ [][NextTamper]_vars

----------------------------------------------------------------------------
(* Other modifications of the chunk records of a container *)

\* the bytes of the k-th chunk record: length field, ciphertext, tag
RecordBytes(data, recs, k) ==
    SubSeq(data, RecordStart(recs, k) + 1, RecordStart(recs, k + 1))

RecordList(data, recs) == [k \in 1..Len(recs) |-> RecordBytes(data, recs, k)]

RECURSIVE Flatten(_)
Flatten(list) == IF list = <<>> THEN <<>> ELSE Head(list) \o Flatten(Tail(list))

\* the plaintext of the first j chunk records
RECURSIVE ConcatRecords(_, _)
ConcatRecords(recs, j) ==
    IF j = 0 THEN <<>> ELSE ConcatRecords(recs, j - 1) \o recs[j]

\* a record that no encrypt call sealed: length 16 and sixteen zero bytes
ForgedRecord == write_u32(TAG_LEN) \o Fill(TAG_LEN, 0)

\* the container is replaced by the same header followed by other records
EditVault(data, kind, i, j) ==
    /\ CanEdit
    /\ fs' = [fs EXCEPT !.vault.data = data]
    /\ tampered' = TRUE
    /\ edit' = [kind |-> kind, i |-> i, j |-> j]
    /\ UNCHANGED << fs0, engine, pc, encPassword, decPassword, key, counter, pos,
                    encResult, decResult, kdfCalls, sealNonces, openNonces,
                    records, alloc, lengthReads, regCall >>

EditRecords(list, kind, i, j) ==
    EditVault(SubSeq(fs.vault.data, 1, HEADER_LEN) \o Flatten(list), kind, i, j)

\* the file is cut to its first n bytes, the header at least
Truncate(n) ==
    /\ n \in HEADER_LEN..(Len(fs.vault.data) - 1)
    /\ EditVault(SubSeq(fs.vault.data, 1, n), "truncate", n, 0)

\* records i and j change places
SwapRecords(i, j) ==
    /\ i \in 1..Len(records) /\ j \in 1..Len(records) /\ i < j
    /\ LET list == RecordList(fs.vault.data, records) IN
       EditRecords([k \in 1..Len(list) |->
                       IF k = i THEN list[j] ELSE IF k = j THEN list[i] ELSE list[k]],
                   "swap", i, j)

\* a copy of record i is inserted so that it becomes the p-th record
DuplicateRecord(i, p) ==
    /\ i \in 1..Len(records) /\ p \in 1..(Len(records) + 1)
    /\ LET list == RecordList(fs.vault.data, records) IN
       EditRecords(SubSeq(list, 1, p - 1) \o <<list[i]>> \o SubSeq(list, p, Len(list)),
                   "duplicate", i, p)

\* a forged record is inserted so that it becomes the p-th record
InsertRecord(p) ==
    /\ p \in 1..(Len(records) + 1)
    /\ LET list == RecordList(fs.vault.data, records) IN
       EditRecords(SubSeq(list, 1, p - 1) \o <<ForgedRecord>> \o SubSeq(list, p, Len(list)),
                   "insert", p, 0)

\* record i, which is not the last, is removed
RemoveRecord(i) ==
    /\ i \in 1..(Len(records) - 1)
    /\ LET list == RecordList(fs.vault.data, records) IN
       EditRecords(SubSeq(list, 1, i - 1) \o SubSeq(list, i + 1, Len(list)),
                   "remove", i, 0)

\* one bit of the length field of record k is flipped (byte b of the field;
\* the top bit of the field is left alone, lengths stay below 2^31)
CorruptLength(k, b, bit) ==
    /\ k \in 1..Len(records) /\ b \in 1..4 /\ bit \in 0..7
    /\ ~(b = 1 /\ bit = 7)
    /\ EditVault([fs.vault.data EXCEPT ![RecordStart(records, k) + b] = Xor(@, Pow2(bit))],
                 "length", k, 8 * (b - 1) + bit)

MaxRecords == MaxSampleLen

NextEdit ==
    \/ NextTamper
    \/ CanEdit /\ \E n \in 0..Len(fs.vault.data) : Truncate(n)
    \/ CanEdit /\ \E i, j \in 1..MaxRecords : SwapRecords(i, j)
    \/ CanEdit /\ \E i \in 1..MaxRecords, p \in 1..(MaxRecords + 1) : DuplicateRecord(i, p)
    \/ CanEdit /\ \E p \in 1..(MaxRecords + 1) : InsertRecord(p)
    \/ CanEdit /\ \E i \in 1..MaxRecords : RemoveRecord(i)
    \/ CanEdit /\ \E k \in 1..MaxRecords, b \in 1..4, bit \in 0..7 : CorruptLength(k, b, bit)

SpecEdit == InitTamper /\ [][NextEdit]_vars

----------------------------------------------------------------------------
(* Calls on the algorithm registry *)

CallFromByte(b) ==
    /\ regCall' = [op |-> "from_byte", arg |-> b, ret |-> from_byte(b)]
    /\ UNCHANGED codecVars

CallToByte(a) ==
    /\ regCall' = [op |-> "to_byte", arg |-> a, ret |-> to_byte(a)]
    /\ UNCHANGED codecVars

\* Algorithm::from_byte(a.to_byte())
CallToByteFromByte(a) ==
    /\ regCall' = [op |-> "to_byte_from_byte", arg |-> a, ret |-> from_byte(to_byte(a))]
    /\ UNCHANGED codecVars

\* Algorithm::from_byte(b).map(|a| a.to_byte())
CallFromByteToByte(b) ==
    /\ regCall' = [op |-> "from_byte_to_byte", arg |-> b,
                   ret |-> IF from_byte(b) = None THEN -1 ELSE to_byte(from_byte(b))]
    /\ UNCHANGED codecVars

InitRegistry ==
    InitWith({NoFile}, {NoFile}, {NoFile},
             {[algorithm |-> "ChaCha20Poly1305", iterations |-> DECRYPT_ITERATIONS]})

NextRegistry ==
    \/ \E b \in Byte : CallFromByte(b)
    \/ \E a \in Algorithms : CallToByte(a)
    \/ \E a \in Algorithms : CallToByteFromByte(a)
    \/ \E b \in Byte : CallFromByteToByte(b)

SpecRegistry == InitRegistry /\ [][NextRegistry]_vars

----------------------------------------------------------------------------
(* Properties of the encrypt and decrypt calls *)

Finished(result) == result \notin {"none", "running"}

\* the encrypt call of this behaviour wrote the container and nobody changed it
Encrypted == encResult = "Ok" /\ ~tampered

CeilDiv(n, d) == (n + d - 1) \div d

\* C1: for every file, password and work factor >= 1, decrypting what
\* encrypt wrote, with the same password, succeeds and writes exactly the file.
C1_RoundTripAnyWorkFactor ==
    (/\ Encrypted
     /\ engine.iterations >= 1
     /\ decPassword = encPassword
     /\ Finished(decResult))
    => (decResult = "Ok" /\ fs.out = File(fs.plain.data))

\* C3: decrypting the container of a non-empty file with a password other
\* than the encryption password returns AuthenticationFailed, never success,
\* whatever work factor encrypt used.
C3_WrongPassword ==
    (/\ Encrypted
     /\ Len(fs.plain.data) > 0
     /\ decPassword # encPassword
     /\ Finished(decResult))
    => decResult = "AuthenticationFailed"

C3_Witness ==
    /\ Encrypted
    /\ Len(fs.plain.data) > CHUNK_SIZE
    /\ engine.iterations = DECRYPT_ITERATIONS
    /\ decPassword # encPassword
    /\ decResult = "AuthenticationFailed"

\* the decrypt call returned before deriving a key, reading a chunk record or
\* creating or truncating the output file
RejectedEarly ==
    /\ kdfCalls.decrypt = 0
    /\ lengthReads = 0
    /\ openNonces = <<>>
    /\ fs.out = fs0.out

\* C4 as stated: a file whose first byte is not version 1 is rejected with
\* UnsupportedVersion, and a version 1 file whose second byte is no registered
\* algorithm id with UnsupportedAlgorithm, both before any key, chunk or output.
C4_HeaderRejectionAnyFile ==
    (Finished(decResult) /\ fs.vault.exists)
    => LET data == fs.vault.data IN
       /\ (Len(data) >= 1 /\ data[1] # VERSION)
            => (decResult = "UnsupportedVersion" /\ RejectedEarly)
       /\ (Len(data) >= 2 /\ data[1] = VERSION /\ data[2] \notin {1, 2})
            => (decResult = "UnsupportedAlgorithm" /\ RejectedEarly)

\* C4 amended: the same for files of at least two bytes (a shorter file is an
\* I/O error of the two-byte header read, also before any key, chunk or output).
C4_HeaderRejection ==
    (Finished(decResult) /\ fs.vault.exists)
    => LET data == fs.vault.data IN
       /\ (Len(data) >= 2 /\ data[1] # VERSION)
            => (decResult = "UnsupportedVersion" /\ RejectedEarly)
       /\ (Len(data) >= 2 /\ data[1] = VERSION /\ data[2] \notin {1, 2})
            => (decResult = "UnsupportedAlgorithm" /\ RejectedEarly)
       /\ Len(data) < 2 => (decResult = "IoError" /\ RejectedEarly)

C4_Witness ==
    /\ decResult = "UnsupportedAlgorithm"
    /\ Len(fs.vault.data) = HEADER_LEN
    /\ fs.out = OldOutput

NoRepeat(nonces) ==
    \A i, j \in 1..Len(nonces) : i # j => nonces[i] # nonces[j]

FromCounter(nonces) ==
    \A i \in 1..Len(nonces) : nonces[i] = NonceOf(i - 1)

\* C5: in one encrypt or decrypt call the nonce of the i-th chunk comes from a
\* counter that starts at 0 and grows by one per use, so no nonce repeats.
C5_NonceNonRepetition ==
    /\ NoRepeat(sealNonces) /\ FromCounter(sealNonces)
    /\ NoRepeat(openNonces) /\ FromCounter(openNonces)
    /\ pc = "enc_loop" => counter = Len(sealNonces)
    /\ pc = "dec_loop" => counter = Len(openNonces)

C5_Witness ==
    /\ Len(sealNonces) > CHUNK_SIZE
    /\ Len(openNonces) > CHUNK_SIZE
    /\ decResult = "Ok"

\* C6: encrypting an empty file writes the header and exactly one chunk record
\* of 0 plaintext bytes (length field 16); decrypting it gives an empty file.
C6_EmptyFileOneRecord ==
    (Encrypted /\ fs.plain.data = <<>>)
    => /\ Len(records) = 1
       /\ Len(fs.vault.data) = HEADER_LEN + 4 + TAG_LEN
       /\ read_u32(SubSeq(fs.vault.data, HEADER_LEN + 1, HEADER_LEN + 4)) = TAG_LEN
       /\ (decResult = "Ok" /\ decPassword = encPassword) => fs.out = File(<<>>)

\* C7: encrypting n > 0 bytes writes ceil(n / CHUNK_SIZE) records, all but the
\* last of CHUNK_SIZE plaintext bytes, each with a length field of its plaintext
\* size plus the tag, however the reads return the data.
C7_ChunkFraming ==
    (Encrypted /\ Len(fs.plain.data) > 0)
    => /\ Len(records) = CeilDiv(Len(fs.plain.data), CHUNK_SIZE)
       /\ \A k \in 1..(Len(records) - 1) : Len(records[k]) = CHUNK_SIZE
       /\ \A k \in 1..Len(records) :
              read_u32(SubSeq(fs.vault.data, RecordStart(records, k) + 1,
                              RecordStart(records, k) + 4))
                  = Len(records[k]) + TAG_LEN

\* C10: with a missing input path both engine calls return InputNotFound
\* without deriving a key and without touching the output path.
C10_InputPreCheck ==
    /\ (Finished(encResult) /\ ~fs0.plain.exists)
         => /\ encResult = "InputNotFound"
            /\ kdfCalls.encrypt = 0
            /\ fs.vault = fs0.vault
    /\ (Finished(decResult) /\ ~fs.vault.exists)
         => /\ decResult = "InputNotFound"
            /\ RejectedEarly

C10_Witness ==
    /\ encResult = "InputNotFound"
    /\ engine.algorithm = "ChaCha20Poly1305"
    /\ fs.vault.exists

IsPrefix(s, t) == Len(s) <= Len(t) /\ SubSeq(t, 1, Len(s)) = s

\* C2: after one bit of a chunk's ciphertext or tag is flipped in a container
\* that decrypts under P, decrypt under P returns AuthenticationFailed, never
\* success, and every plaintext byte it wrote is the original byte at its offset.
C2_TamperDetection ==
    (tampered /\ decPassword = encPassword /\ decResult # "none")
    => /\ decResult \in {"running", "AuthenticationFailed"}
       /\ fs.out.exists => IsPrefix(fs.out.data, fs.plain.data)

C2_Witness ==
    /\ tampered
    /\ decPassword = encPassword
    /\ decResult = "AuthenticationFailed"
    /\ Len(fs.out.data) >= CHUNK_SIZE

----------------------------------------------------------------------------
(* Properties of the algorithm registry *)

\* C8: from_byte(to_byte(a)) is a; from_byte(b) is an algorithm only for b = 1
\* and b = 2, and then to_byte gives back b; every other byte gives None.
C8_RegistryRoundTrip ==
    /\ regCall.op = "to_byte_from_byte" => regCall.ret = regCall.arg
    /\ regCall.op = "from_byte" =>
          IF regCall.arg \in {1, 2} THEN regCall.ret \in Algorithms
          ELSE regCall.ret = None
    /\ regCall.op = "from_byte_to_byte" =>
          IF regCall.arg \in {1, 2} THEN regCall.ret = regCall.arg
          ELSE regCall.ret = -1
    /\ regCall.op = "to_byte" => regCall.ret \in {1, 2}

C8_Witness ==
    /\ regCall.op = "from_byte_to_byte"
    /\ regCall.arg = 2
    /\ regCall.ret = 2

----------------------------------------------------------------------------
(* Properties of decrypt on modified containers *)

\* the decrypt call derives the key the encrypt call sealed with
SameKey == decPassword = encPassword /\ engine.iterations = DECRYPT_ITERATIONS

\* byte offset n is where a chunk record of the original container starts or
\* where the container ends
AtBoundary(n) == \E j \in 0..Len(records) : n = RecordStart(records, j + 1)

\* C11: decrypt ends normally only when end of file falls on a record
\* boundary; end of file inside a length field or inside a record's
\* ciphertext makes it return an I/O error, never success.
C11_EndOfStream ==
    (edit.kind = "truncate" /\ SameKey /\ Finished(decResult))
    => IF AtBoundary(edit.i) THEN decResult = "Ok" ELSE decResult = "IoError"

\* the chunk record whose ciphertext or tag holds byte position i
RecordOf(i) ==
    CHOOSE k \in 1..Len(records) :
        i \in (RecordStart(records, k) + 5)..RecordStart(records, k + 1)

\* C12: when opening chunk k fails, decrypt returns AuthenticationFailed at
\* once: chunk k is the last one read and opened, nothing of it or of a later
\* chunk is written, and the output file stays, holding the chunks before k.
C12_AbortOnFirstBadChunk ==
    (edit.kind = "flip" /\ SameKey /\ Finished(decResult))
    => LET k == RecordOf(edit.i) IN
       /\ decResult = "AuthenticationFailed"
       /\ pc = "idle"
       /\ lengthReads = k
       /\ Len(openNonces) = k
       /\ fs.out = File(ConcatRecords(records, k - 1))

C12_Witness ==
    /\ edit.kind = "flip" /\ SameKey
    /\ decResult = "AuthenticationFailed"
    /\ RecordOf(edit.i) = 2
    /\ Len(records) = 3
    /\ fs.out = File(records[1])

\* the first position whose record is not the one encrypt sealed there
FirstMisplaced ==
    IF edit.kind = "duplicate"
    THEN (IF edit.j \in {edit.i, edit.i + 1} THEN edit.i + 1 ELSE edit.j)
    ELSE edit.i

\* C13: swapping two records, duplicating a record or removing a record that
\* is not the last makes decrypt under the right key return
\* AuthenticationFailed, at the first position that holds a record sealed
\* with another nonce: chunk i is only ever opened with the i-th nonce.
C13_OrderSignificance ==
    (edit.kind \in {"swap", "duplicate", "remove"} /\ SameKey /\ Finished(decResult))
    => /\ decResult = "AuthenticationFailed"
       /\ Len(openNonces) = FirstMisplaced
       /\ FromCounter(openNonces)
       /\ fs.out = File(ConcatRecords(records, FirstMisplaced - 1))

C13_Witness ==
    /\ edit.kind = "swap" /\ edit.i = 2 /\ edit.j = 3
    /\ SameKey
    /\ decResult = "AuthenticationFailed"
    /\ fs.out = File(records[1])

----------------------------------------------------------------------------
(* Properties of the container layout *)

\* the width the registry declares for the base nonce of the container
DeclaredNonceWidth == nonce_size(from_byte(fs.vault.data[2]))

\* C14: the base nonce that encrypt writes after the salt, and that decrypt
\* skips, has the width the registry declares for the container's algorithm,
\* so the first chunk record starts at offset 2 + 32 + that width.
C14_HeaderNonceWidth ==
    /\ Encrypted =>
          Len(fs.vault.data) - (Len(fs.plain.data) + Len(records) * (4 + TAG_LEN))
              = 2 + SALT_SIZE + DeclaredNonceWidth
    /\ (pc = "dec_loop" /\ lengthReads = 0) =>
          pos = 2 + SALT_SIZE + DeclaredNonceWidth

\* the 4-byte length field of the k-th record of the container
LengthField(k) ==
    SubSeq(fs.vault.data, RecordStart(records, k) + 1, RecordStart(records, k) + 4)

\* C15: the length field of every record that encrypt writes is the
\* little-endian encoding of the ciphertext-plus-tag length, and decrypt reads
\* the field back as that length.
C15_LengthPrefixLittleEndian ==
    /\ Encrypted => \A k \in 1..Len(records) :
          LengthField(k) = LittleEndian(Len(records[k]) + TAG_LEN, 4)
    /\ (Encrypted /\ decResult = "Ok") => \A k \in 1..Len(records) :
          read_u32(LengthField(k)) = Len(records[k]) + TAG_LEN

\* C16: at every step of encrypt and of decrypt, on every container
\* including edited ones, the chunk buffer the codec allocates is at most the
\* chunk size plus the tag.
C16_BoundedBuffers == alloc <= CHUNK_SIZE + TAG_LEN

----------------------------------------------------------------------------
(* Properties of the failure paths *)

\* an encrypt call that reached the ChaCha20-Poly1305 codec with work factor 0
ZeroWorkFactor == /\ fs0.plain.exists
                  /\ engine.algorithm = "ChaCha20Poly1305"
                  /\ engine.iterations = 0

\* C17: encrypting with work factor 0 returns KdfError after one key
\* derivation, and the output path is left as it was: neither created nor
\* truncated.
C17_InvalidWorkFactor ==
    (ZeroWorkFactor /\ encResult # "none")
    => /\ encResult = "KdfError"
       /\ pc = "idle"
       /\ kdfCalls.encrypt = 1
       /\ fs.vault = fs0.vault

C17_Witness == /\ ZeroWorkFactor
               /\ encResult = "KdfError"
               /\ fs.vault = OldOutput

----------------------------------------------------------------------------
(* Properties of decrypt on edited containers *)

\* C18: whatever was done to the record region of a container (bit flips,
\* reordering, duplication, insertion, removal, truncation, or nothing), at
\* every point of a decrypt call under the encryption key the output holds
\* exactly the first j plaintext chunks for some j, whether the call is still
\* running, has succeeded or has failed.
C18_OutputPrefix ==
    (encResult = "Ok" /\ SameKey /\ decResult # "none" /\ fs.out.exists)
    => \E j \in 0..Len(records) : fs.out.data = ConcatRecords(records, j)

C18_Witness == /\ edit.kind = "insert" /\ edit.i = 2
               /\ SameKey
               /\ decResult = "AuthenticationFailed"
               /\ Len(records) = 3
               /\ fs.out = File(records[1])

\* C19: a container cut after its first j records, j below the number of
\* records, decrypts under the correct password with a success result and an
\* output of exactly the first j plaintext chunks.
C19_BoundaryTruncationAccepted ==
    (edit.kind = "truncate" /\ AtBoundary(edit.i) /\ SameKey /\ Finished(decResult))
    => \E j \in 0..(Len(records) - 1) :
          /\ edit.i = RecordStart(records, j + 1)
          /\ decResult = "Ok"
          /\ Len(openNonces) = j
          /\ fs.out = File(ConcatRecords(records, j))

C19_Witness == /\ edit.kind = "truncate"
               /\ Len(records) = 3
               /\ edit.i = RecordStart(records, 3)
               /\ SameKey
               /\ decResult = "Ok"
               /\ fs.out = File(records[1] \o records[2])

\* C20: a container of a header and no record, which is what encrypt writes
\* for an empty input, decrypts with a success result and an empty output
\* under every password, the encryption password or another.
C20_NoPasswordCheckWithoutChunk ==
    (Encrypted /\ fs.plain.data = <<>> /\ Finished(decResult))
    => /\ Len(fs.vault.data) = HEADER_LEN
       /\ decResult = "Ok"
       /\ lengthReads = 0
       /\ fs.out = File(<<>>)

C20_Witness == /\ Encrypted /\ fs.plain.data = <<>>
               /\ decPassword # encPassword
               /\ decResult = "Ok"
               /\ fs.out = File(<<>>)
               /\ fs0.out = OldOutput

----------------------------------------------------------------------------
(* Round trip at the work factor decrypt uses *)

\* some read of the input returned fewer bytes than the chunk size before the
\* last one
ShortReadBeforeEnd ==
    \E k \in 1..(Len(records) - 1) : Len(records[k]) < CHUNK_SIZE

\* C21: a file encrypted with work factor 3, the value decrypt passes to the
\* key derivation, decrypts under the same password with a success result and
\* an output equal to the input, for every file size and however the reads of
\* the input split the data into chunks.
C21_RoundTripAtDecryptWorkFactor ==
    (/\ Encrypted
     /\ engine.iterations = DECRYPT_ITERATIONS
     /\ decPassword = encPassword
     /\ Finished(decResult))
    => /\ decResult = "Ok"
       /\ fs.out = File(fs.plain.data)
       /\ Len(openNonces) = Len(records)
       /\ ConcatRecords(records, Len(records)) = fs.plain.data

C21_Witness == /\ Encrypted
               /\ engine.iterations = DECRYPT_ITERATIONS
               /\ decPassword = encPassword
               /\ decResult = "Ok"
               /\ ShortReadBeforeEnd
               /\ Len(fs.plain.data) = MaxFileLen
               /\ fs.out = File(fs.plain.data)

====
